---- MODULE Spec2Model ----
(***************************************************************************)
(* The FPC voting engine of package fpc (Instance, round, updateOpinion,   *)
(* getFinalizedTxs, isFinal, querySample, calculateEtas, choose, runif).   *)
(*                                                                         *)
(* Every Tick starts a goroutine that runs round() and then sends the      *)
(* returned batch on the unbuffered finalizedTxsChannel.  The goroutines   *)
(* share fpc.state without any lock, so the model interleaves them at the  *)
(* granularity of the calls round() makes: popTxs, updateOpinion,          *)
(* getFinalizedTxs, querySample (the start of the k queries, then their    *)
(* join with the write-back loop).  JoinSpec splits the join into the      *)
(* steps of the k query goroutines and of the merge loop on channel c.     *)
(* A panic or a runtime fatal error ends the process: panicked becomes     *)
(* TRUE and no action is enabled any more.                                 *)
(*                                                                         *)
(* float64 values are modelled as fractions [n, d]; every float64          *)
(* operation computes the exact result and rounds it to the nearest value  *)
(* with Precision significant bits, ties to even (Fl).  float64 keeps 53   *)
(* bits; exponent overflow and underflow do not occur on the values used.  *)
(***************************************************************************)
EXTENDS Integers, Sequences, FiniteSets, TLC

(* ------------------------------ bounds --------------------------------- *)

\* number of Tick calls the host makes
MaxTicks == 4

\* number of Tick calls in the run of a scenario
MaxRounds == 6

\* length of the histories the finalization rule is applied to
MaxLen == 5

\* largest cooling-off m and largest window l the finalization rule is applied with
MaxWindow == 3

\* number of distinct transaction ids
NumTxs == 1

\* number of TxOpinion entries handed to SubmitTxsForVoting over a run
MaxSubmits == 2

\* number of node ids GetKnownPeers can return
NumPeers == 1

\* number of rounds the host lets run at once: it calls Tick only while fewer
\* than this many earlier batches are still to be received
MaxInFlight == 2

\* significant bits a float keeps (float64: 53)
Precision == 4

\* binades below 1 the float parameters and randoms are drawn from
MaxBinades == 2

\* most txs in activeTxs when a sampler is examined on its own
MaxSampled == 2

\* most nodes a round queries when a sampler is examined on its own
MaxK == 3

(* ------------------------- fractions (float64) ------------------------- *)

Frac(n, d) == [n |-> n, d |-> d]

FracAdd(p, q) == Frac(p.n * q.d + q.n * p.d, p.d * q.d)

FracSub(p, q) == Frac(p.n * q.d - q.n * p.d, p.d * q.d)

FracMul(p, q) == Frac(p.n * q.n, p.d * q.d)

\* p > q, denominators are positive
FracGT(p, q) == p.n * q.d > q.n * p.d

FracEQ(p, q) == p.n * q.d = q.n * p.d

MinusOne == Frac(-1, 1)

\* p <= q
FracLE(p, q) == ~FracGT(p, q)

\* the exponent e >= from with 2^(Precision-1) <= (n/d) * 2^e, for n, d > 0
RECURSIVE Shift(_, _, _)
Shift(n, d, from) ==
    IF n * 2^from >= 2^(Precision - 1) * d THEN from ELSE Shift(n, d, from + 1)

\* n / 2^e in lowest terms
RECURSIVE Lowest(_, _)
Lowest(n, e) == IF e > 0 /\ n % 2 = 0 THEN Lowest(n \div 2, e - 1) ELSE Frac(n, 2^e)

\* the float nearest to q, ties to even: the rounding of every float64 operation
Fl(q) ==
    IF q.n = 0 THEN Frac(0, 1)
    ELSE LET sign == IF q.n < 0 THEN -1 ELSE 1
             n == sign * q.n
             e == Shift(n, q.d, 0)
             mant == (n * 2^e) \div q.d
             twiceRest == 2 * (n * 2^e - mant * q.d)
             up == twiceRest > q.d \/ (twiceRest = q.d /\ mant % 2 = 1)
         IN  Lowest(sign * (IF up THEN mant + 1 ELSE mant), e)

(* ----------------------------- parameters ------------------------------ *)

\* Parameters{k, a, b, beta, m, l}: the configurations New is called with.
\* k: nodes queried in a round; a, b: bounds of the first threshold; beta: bound
\* of the later thresholds; m: cooling-off rounds; l: trailing identical
\* opinions that finalize
Parameters ==
    {[k |-> 2, a |-> Frac(1, 4), b |-> Frac(1, 2), beta |-> Frac(1, 4), m |-> 0, l |-> ll] :
        ll \in {1, 2}}

Like == TRUE

Dislike == FALSE

(* ------------------------------- domains ------------------------------- *)

Txs == 1..NumTxs

\* the goroutines Tick starts, named by the number of the Tick call
Rounds == 1..MaxRounds

\* the randoms a tick can carry
Randoms == {Frac(0, 1), Frac(1, 2)}

\* TxOpinion{TxHash, Opinion}
TxOpinion(tx, op) == [TxHash |-> tx, Opinion |-> op]

\* etaResult{value, count}
etaResult(value, count) == [value |-> value, count |-> count]

\* the etaResult of a freshly promoted tx
NoEta == etaResult(MinusOne, 0)

\* newEtaMap: the empty mapping
newEtaMap == << >>

\* the sequences over S of a length in lo..hi
SeqsOf(S, lo, hi) == UNION {[1..n -> S] : n \in lo..hi}

\* the orders in which ranging over a map with key set S can visit the keys
Orders(S) == {s \in [1..Cardinality(S) -> S] : \A i, j \in DOMAIN s : i /= j => s[i] /= s[j]}

VARIABLES
    parameters,      \* state.parameters
    waitingTxs,      \* state.waitingTxs: the submitted TxOpinions, in order
    activeTxs,       \* state.activeTxs: etaMap, tx -> etaResult
    opinionHistory,  \* state.opinionHistory: tx -> Opinions
    tick,            \* state.tick
    pc,              \* position of the goroutine started by the r-th Tick
    finalized,       \* round r: the list returned by getFinalizedTxs
    txs,             \* round r: the snapshot getActiveTxs handed to querySample
    knownPeers,      \* round r: the list getKnownPeers returned
    selectedNodes,   \* round r: the nodes choose picked
    queries,         \* round r: per query goroutine whose qn returned, what it received
                     \* and whether it has sent it on c
    c,               \* round r: the buffer of channel c of querySample
    taken,           \* round r: the responses the merge loop has taken from c
    delivered,       \* the rounds whose batch the consumer received, in order
    panicked,        \* the process died of a panic or a runtime fatal error
    nticks,          \* number of Tick calls made
    submitCount,     \* per tx: number of times it was submitted
    writers,         \* per history: the round that wrote each entry (0: popTxs)
    age,             \* per tx: updateOpinion runs since its promotion
    skipped          \* per tx: those runs that found value = -1

vars == <<parameters, waitingTxs, activeTxs, opinionHistory, tick, pc, finalized, txs, knownPeers,
          selectedNodes, queries, c, taken, delivered, panicked, nticks, submitCount, writers,
          age, skipped>>

sharedVars == <<waitingTxs, activeTxs, opinionHistory, writers, age, skipped>>

hostVars == <<parameters, tick, nticks, submitCount>>

localVars == <<finalized, txs, knownPeers, selectedNodes>>

queryVars == <<queries, c, taken>>

(* --------------------------- pure functions ---------------------------- *)

\* newTick
newTick(index, random) == [index |-> index, x |-> random]

\* runif with the operands of the sum exchanged for the upper bound
runif_FromUpper(rand, thresholdL, thresholdU) ==
    Fl(FracAdd(thresholdU, Fl(FracMul(rand, Fl(FracSub(thresholdU, thresholdL))))))

\* runif: thresholdL + rand*(thresholdU-thresholdL), three float64 operations
runif(rand, thresholdL, thresholdU) ==
    Fl(FracAdd(thresholdL, Fl(FracMul(rand, Fl(FracSub(thresholdU, thresholdL))))))

\* getLastOpinion: the last entry, or false with an error for an empty list
getLastOpinion(list) ==
    IF Len(list) > 0 THEN [opinion |-> list[Len(list)], err |-> FALSE]
    ELSE [opinion |-> FALSE, err |-> TRUE]

\* isFinal without the cooling-off rounds in the length test
isFinal_IgnoresCooldown(o, mm, ll) ==
    IF Len(o) = 0 THEN FALSE
    ELSE IF Len(o) < ll THEN FALSE
    ELSE LET finalProposal == o[Len(o) - ll + 1]
         IN  \A i \in (Len(o) - ll + 2)..Len(o) : o[i] = finalProposal

\* isFinal.  The caller passes history[1:], which is never nil; the first test
\* stands for o == nil and, like the second, answers false for an empty list
isFinal(o, mm, ll) ==
    IF Len(o) = 0 THEN FALSE
    ELSE IF Len(o) < mm + ll THEN FALSE
    ELSE LET finalProposal == o[Len(o) - ll + 1]
         IN  \A i \in (Len(o) - ll + 2)..Len(o) : o[i] = finalProposal

\* the whole history, initial opinion included
Tail1_KeepsInitial(history) == history

\* history[1:]
Tail1(history) == SubSeq(history, 2, Len(history))

\* the threshold updateOpinion uses for a tx with this history
Threshold(history, x) ==
    IF Len(history) = 1 THEN runif(x, parameters.a, parameters.b)
    ELSE runif(x, parameters.beta, Fl(FracSub(Frac(1, 1), parameters.beta)))

\* calculateEtas: the first loop, over votes[i..]
RECURSIVE CountVotes(_, _, _)
CountVotes(votes, i, allEtas) ==
    IF i > Len(votes) THEN allEtas
    ELSE LET tx == votes[i].TxHash
             cur == IF tx \in DOMAIN allEtas THEN allEtas[tx] ELSE etaResult(Frac(0, 1), 0)
             val == IF votes[i].Opinion THEN Frac(cur.value.n + 1, 1) ELSE cur.value
             new == etaResult(val, cur.count + 1)
         IN  CountVotes(votes, i + 1, (tx :> new) @@ allEtas)

\* calculateEtas without the loop that divides each value by its count
calculateEtas_NoDivide(votes) == CountVotes(votes, 1, newEtaMap)

\* calculateEtas: count the votes, then divide each value by its count
calculateEtas(votes) ==
    LET allEtas == CountVotes(votes, 1, newEtaMap)
    IN  [tx \in DOMAIN allEtas |->
            etaResult(Fl(Frac(allEtas[tx].value.n, allEtas[tx].value.d * allEtas[tx].count)),
                      allEtas[tx].count)]

\* the merge loop appending the votes of every response twice
RECURSIVE MergeVotes_Doubled(_, _, _, _)
MergeVotes_Doubled(txlist, responses, i, result) ==
    IF i > Len(responses) THEN result
    ELSE LET votes == responses[i]
             more == [voteIdx \in 1..Len(votes) |-> TxOpinion(txlist[voteIdx], votes[voteIdx])]
         IN  MergeVotes_Doubled(txlist, responses, i + 1, result \o more \o more)

\* querySample: the merge loop, result after the responses votes[i..]
RECURSIVE MergeVotes(_, _, _, _)
MergeVotes(txlist, responses, i, result) ==
    IF i > Len(responses) THEN result
    ELSE LET votes == responses[i]
             more == [voteIdx \in 1..Len(votes) |-> TxOpinion(txlist[voteIdx], votes[voteIdx])]
         IN  MergeVotes(txlist, responses, i + 1, result \o more)

\* choose: k picks from list, with replacement; rand.Intn panics on an empty list
choose(list, kk) == [1..kk -> {list[i] : i \in DOMAIN list}]

\* GetInterimOpinion: the last opinion of each tx, false where no history is stored
GetInterimOpinion(txlist) ==
    [i \in DOMAIN txlist |->
        IF txlist[i] \in DOMAIN opinionHistory
        THEN getLastOpinion(opinionHistory[txlist[i]]).opinion
        ELSE FALSE]

(* ----------------------- the opinion history map ----------------------- *)

\* opinionHistory.Load(tx): ok
Loads(h, tx) == tx \in DOMAIN h

\* opinionHistory.Store(tx, opinion): append opinion to the history of tx
Store(h, tx, opinion) == [h EXCEPT ![tx] = Append(@, opinion)]

\* opinionHistory.Delete(tx) for every tx of S
Delete(h, S) == [tx \in DOMAIN h \ S |-> h[tx]]

(* ------------------------------- state --------------------------------- *)

Init ==
    /\ parameters \in Parameters
    /\ waitingTxs = << >>
    /\ activeTxs = << >>
    /\ opinionHistory = << >>
    /\ tick = newTick(0, Frac(0, 1))
    /\ pc = [r \in Rounds |-> "idle"]
    /\ finalized = [r \in Rounds |-> {}]
    /\ txs = [r \in Rounds |-> << >>]
    /\ knownPeers = [r \in Rounds |-> << >>]
    /\ selectedNodes = [r \in Rounds |-> << >>]
    /\ queries = [r \in Rounds |-> << >>]
    /\ c = [r \in Rounds |-> << >>]
    /\ taken = [r \in Rounds |-> << >>]
    /\ delivered = << >>
    /\ panicked = FALSE
    /\ nticks = 0
    /\ submitCount = [tx \in Txs |-> 0]
    /\ writers = << >>
    /\ age = << >>
    /\ skipped = << >>

(* ------------------------------ the host ------------------------------- *)

\* the TxOpinion lists a call of SubmitTxsForVoting can carry
SubmitLists == SeqsOf({TxOpinion(tx, op) : tx \in Txs, op \in BOOLEAN}, 1, 2)

\* pushTxs: append to the waiting list
pushTxs(list) == waitingTxs \o list

\* number of TxOpinions submitted so far
RECURSIVE Sum(_, _)
Sum(f, S) == IF S = {} THEN 0 ELSE LET x == CHOOSE y \in S : TRUE IN f[x] + Sum(f, S \ {x})

nsubmits == Sum(submitCount, Txs)

\* SubmitTxsForVoting(txs...)
SubmitTxsForVoting(list) ==
    /\ ~panicked
    /\ nsubmits + Len(list) <= MaxSubmits
    /\ waitingTxs' = pushTxs(list)
    /\ submitCount' = [tx \in Txs |->
           submitCount[tx] + Cardinality({i \in DOMAIN list : list[i].TxHash = tx})]
    /\ UNCHANGED <<parameters, activeTxs, opinionHistory, writers, age, skipped, tick, nticks>>
    /\ UNCHANGED <<pc, delivered, panicked>>
    /\ UNCHANGED localVars
    /\ UNCHANGED queryVars

\* the rounds whose batch the consumer has not received yet
InFlight == {r \in Rounds : pc[r] \notin {"idle", "done"}}

\* Tick(index, random): store the tick, start the goroutine of the round
Tick(random) ==
    /\ ~panicked
    /\ nticks < MaxRounds
    /\ tick' = newTick(nticks + 1, random)
    /\ nticks' = nticks + 1
    /\ pc' = [pc EXCEPT ![nticks + 1] = "pop"]
    /\ UNCHANGED sharedVars
    /\ UNCHANGED <<parameters, submitCount, delivered, panicked>>
    /\ UNCHANGED localVars
    /\ UNCHANGED queryVars

\* Tick called by a host that lets MaxInFlight rounds run at once
HostTick(random) ==
    /\ nticks < MaxTicks
    /\ Cardinality(InFlight) < MaxInFlight
    /\ Tick(random)

(* ------------------------------ the round ------------------------------ *)

\* popTxs: the txs the waiting list promotes, those not yet in activeTxs
Promoted == {waitingTxs[i].TxHash : i \in DOMAIN waitingTxs} \ DOMAIN activeTxs

\* popTxs: the initial opinion of a promoted tx, its last submission
InitialOpinion(tx) ==
    LET last == CHOOSE i \in DOMAIN waitingTxs :
                    /\ waitingTxs[i].TxHash = tx
                    /\ \A j \in DOMAIN waitingTxs : waitingTxs[j].TxHash = tx => j <= i
    IN  waitingTxs[last].Opinion

\* popTxs that leaves the promoted entries in the waiting list
popTxs_KeepsWaiting ==
    [waitingTxs |-> waitingTxs,
     activeTxs |-> [tx \in Promoted |-> NoEta] @@ activeTxs,
     opinionHistory |-> [tx \in Promoted |-> <<InitialOpinion(tx)>>] @@ opinionHistory]

\* popTxs: drain the waiting list; each tx not yet in activeTxs gets the etaResult
\* {-1, 0} and a history of its initial opinion
popTxs ==
    [waitingTxs |-> << >>,
     activeTxs |-> [tx \in Promoted |-> NoEta] @@ activeTxs,
     opinionHistory |-> [tx \in Promoted |-> <<InitialOpinion(tx)>>] @@ opinionHistory]

\* round: fpc.state.popTxs()
RoundPopTxs(r) ==
    /\ ~panicked
    /\ pc[r] = "pop"
    /\ activeTxs' = popTxs.activeTxs
    /\ opinionHistory' = popTxs.opinionHistory
    /\ waitingTxs' = popTxs.waitingTxs
    /\ writers' = [tx \in Promoted |-> <<0>>] @@ writers
    /\ age' = [tx \in Promoted |-> 0] @@ age
    /\ skipped' = [tx \in Promoted |-> 0] @@ skipped
    /\ pc' = [pc EXCEPT ![r] = "update"]
    /\ UNCHANGED hostVars
    /\ UNCHANGED queryVars
    /\ UNCHANGED <<delivered, panicked>>
    /\ UNCHANGED localVars

\* updateOpinion without the test of the -1 of a tx that has no votes yet
Updated_NoSentinelTest == {tx \in DOMAIN activeTxs : Loads(opinionHistory, tx)}

\* updateOpinion: the txs the loop appends an opinion to
Updated == {tx \in DOMAIN activeTxs :
               Loads(opinionHistory, tx) /\ ~FracEQ(activeTxs[tx].value, MinusOne)}

\* updateOpinion with eta.value >= threshold
newOpinion_NotLess(tx, x) == FracLE(Threshold(opinionHistory[tx], x), activeTxs[tx].value)

\* updateOpinion: eta.value > threshold
newOpinion(tx, x) == FracGT(activeTxs[tx].value, Threshold(opinionHistory[tx], x))

\* round: fpc.updateOpinion()
RoundUpdateOpinion(r) ==
    /\ ~panicked
    /\ pc[r] = "update"
    /\ opinionHistory' = [tx \in DOMAIN opinionHistory |->
           IF tx \in Updated
           THEN Store(opinionHistory, tx, newOpinion(tx, tick.x))[tx]
           ELSE opinionHistory[tx]]
    /\ writers' = [tx \in DOMAIN writers |->
           IF tx \in Updated THEN Append(writers[tx], r) ELSE writers[tx]]
    /\ age' = [tx \in DOMAIN age |-> IF tx \in DOMAIN activeTxs THEN age[tx] + 1 ELSE age[tx]]
    /\ skipped' = [tx \in DOMAIN skipped |->
           IF tx \in DOMAIN activeTxs /\ FracEQ(activeTxs[tx].value, MinusOne)
           THEN skipped[tx] + 1
           ELSE skipped[tx]]
    /\ pc' = [pc EXCEPT ![r] = "finalize"]
    /\ UNCHANGED <<waitingTxs, activeTxs, finalized, txs, knownPeers, selectedNodes>>
    /\ UNCHANGED hostVars
    /\ UNCHANGED queryVars
    /\ UNCHANGED <<delivered, panicked>>

\* getFinalizedTxs: history[1:] of a tx without a stored history is out of range
SlicesNil == \E tx \in DOMAIN activeTxs : ~Loads(opinionHistory, tx)

\* getFinalizedTxs: the txs whose history isFinal
Final == {tx \in DOMAIN activeTxs :
             Loads(opinionHistory, tx) /\ isFinal(Tail1(opinionHistory[tx]), parameters.m, parameters.l)}

\* round: finalized := fpc.getFinalizedTxs()
RoundGetFinalizedTxs(r) ==
    /\ ~panicked
    /\ pc[r] = "finalize"
    /\ IF SlicesNil
       THEN /\ panicked' = TRUE
            /\ UNCHANGED <<activeTxs, opinionHistory, writers, age, skipped, finalized, pc>>
       ELSE /\ finalized' = [finalized EXCEPT ![r] =
                   {TxOpinion(tx, getLastOpinion(opinionHistory[tx]).opinion) : tx \in Final}]
            /\ opinionHistory' = Delete(opinionHistory, Final)
            /\ activeTxs' = [tx \in DOMAIN activeTxs \ Final |-> activeTxs[tx]]
            /\ writers' = [tx \in DOMAIN writers \ Final |-> writers[tx]]
            /\ age' = [tx \in DOMAIN age \ Final |-> age[tx]]
            /\ skipped' = [tx \in DOMAIN skipped \ Final |-> skipped[tx]]
            /\ pc' = [pc EXCEPT ![r] = "query"]
            /\ UNCHANGED panicked
    /\ UNCHANGED <<waitingTxs, txs, knownPeers, selectedNodes, delivered>>
    /\ UNCHANGED hostVars
    /\ UNCHANGED queryVars

\* GetKnownPeers: the lists of node ids the collaborator can return
PeerLists == {[i \in 1..n |-> i] : n \in 0..NumPeers}

\* getActiveTxs: the keys of activeTxs, in the order the map yields them
getActiveTxs == Orders(DOMAIN activeTxs)

\* round: querySample(getActiveTxs(), k, getKnownPeers(), queryNode), up to the
\* start of the k query goroutines
RoundQuerySample(r) ==
    /\ ~panicked
    /\ pc[r] = "query"
    /\ \E snapshot \in getActiveTxs, nodes \in PeerLists :
          /\ txs' = [txs EXCEPT ![r] = snapshot]
          /\ knownPeers' = [knownPeers EXCEPT ![r] = nodes]
          /\ IF Len(nodes) = 0
             THEN /\ panicked' = TRUE
                  /\ UNCHANGED <<selectedNodes, pc>>
             ELSE /\ \E chosen \in choose(nodes, parameters.k) :
                        selectedNodes' = [selectedNodes EXCEPT ![r] = chosen]
                  /\ pc' = [pc EXCEPT ![r] = "wait"]
                  /\ UNCHANGED panicked
    /\ UNCHANGED sharedVars
    /\ UNCHANGED hostVars
    /\ UNCHANGED queryVars
    /\ UNCHANGED <<finalized, delivered>>

\* QueryNode: the opinions a node can answer for the queried list
Responses(txlist) == {<< >>} \cup [1..Len(txlist) -> BOOLEAN]

\* querySample: the etaMap it returns for the k responses, in the order in which
\* channel c hands them over
querySample(txlist, responses) == calculateEtas(MergeVotes(txlist, responses, 1, << >>))

\* the write-back with a reset of the txs the returned map does not hold
RoundWriteBackOf_ResetsAbsent(r, responses) ==
    /\ ~panicked
    /\ pc[r] = "wait"
    /\ activeTxs' = querySample(txs[r], responses) @@ [tx \in DOMAIN activeTxs |-> NoEta]
    /\ pc' = [pc EXCEPT ![r] = "send"]
    /\ txs' = [txs EXCEPT ![r] = << >>]
    /\ selectedNodes' = [selectedNodes EXCEPT ![r] = << >>]
    /\ UNCHANGED <<waitingTxs, opinionHistory, writers, age, skipped>>
    /\ UNCHANGED hostVars
    /\ UNCHANGED queryVars
    /\ UNCHANGED <<finalized, knownPeers, delivered, panicked>>

\* round: the k queries have returned these responses, querySample merges them
\* and the loop of round writes the etas to activeTxs
RoundWriteBackOf(r, responses) ==
    /\ ~panicked
    /\ pc[r] = "wait"
    /\ activeTxs' = querySample(txs[r], responses) @@ activeTxs
    /\ pc' = [pc EXCEPT ![r] = "send"]
    /\ txs' = [txs EXCEPT ![r] = << >>]
    /\ selectedNodes' = [selectedNodes EXCEPT ![r] = << >>]
    /\ UNCHANGED <<waitingTxs, opinionHistory, writers, age, skipped>>
    /\ UNCHANGED hostVars
    /\ UNCHANGED queryVars
    /\ UNCHANGED <<finalized, knownPeers, delivered, panicked>>

\* round: the write-back, for any responses of the k queries
RoundWriteBack(r) ==
    \E responses \in [1..parameters.k -> Responses(txs[r])] : RoundWriteBackOf(r, responses)

\* Tick: fpc.finalizedTxsChannel <- fpc.round(), taken by the consumer
Receive(r) ==
    /\ ~panicked
    /\ pc[r] = "send"
    /\ delivered' = Append(delivered, r)
    /\ pc' = [pc EXCEPT ![r] = "done"]
    /\ UNCHANGED sharedVars
    /\ UNCHANGED hostVars
    /\ UNCHANGED queryVars
    /\ UNCHANGED localVars
    /\ UNCHANGED panicked

\* the next step of round goroutine r ranges over activeTxs or writes it, in
\* updateOpinion, in getFinalizedTxs or in the write-back loop of round
Accessing(r) == pc[r] \in {"update", "finalize"} \/ (pc[r] = "wait" /\ txs[r] /= << >>)

\* the next step of round goroutine r can write activeTxs: the delete of
\* getFinalizedTxs, the assignment of the write-back loop
Writing(r) ==
    \/ pc[r] = "finalize" /\ Final /= {}
    \/ pc[r] = "wait" /\ txs[r] /= << >>

\* two round goroutines access activeTxs at once, one of them writing: the
\* runtime can stop the process (fatal error: concurrent map writes)
ConcurrentMapAccess ==
    /\ ~panicked
    /\ \E r1, r2 \in Rounds : r1 /= r2 /\ Writing(r1) /\ Accessing(r2)
    /\ panicked' = TRUE
    /\ UNCHANGED sharedVars
    /\ UNCHANGED hostVars
    /\ UNCHANGED queryVars
    /\ UNCHANGED localVars
    /\ UNCHANGED <<pc, delivered>>

RoundStep(r) ==
    \/ RoundPopTxs(r)
    \/ RoundUpdateOpinion(r)
    \/ RoundGetFinalizedTxs(r)
    \/ RoundQuerySample(r)
    \/ RoundWriteBack(r)

Next ==
    \/ \E list \in SubmitLists : SubmitTxsForVoting(list)
    \/ \E random \in Randoms : HostTick(random)
    \/ \E r \in Rounds : RoundStep(r)
    \/ \E r \in Rounds : Receive(r)
    \/ ConcurrentMapAccess

Spec == Init /\ [][Next]_vars

\* Tick called by a host that has received the batch of every earlier tick
SerialTick(random) == nticks < MaxTicks /\ InFlight = {} /\ Tick(random)

\* a host that calls Tick only after it received the batch of the tick before
SerialNext ==
    \/ \E list \in SubmitLists : SubmitTxsForVoting(list)
    \/ \E random \in Randoms : SerialTick(random)
    \/ \E r \in Rounds : RoundStep(r)
    \/ \E r \in Rounds : Receive(r)

SerialSpec == Init /\ [][SerialNext]_vars

\* the scheduler runs every goroutine, every query returns, the consumer receives
FairSpec ==
    /\ Spec
    /\ \A r \in Rounds : WF_vars(RoundStep(r))
    /\ \A r \in Rounds : WF_vars(Receive(r))

TypeOK ==
    /\ DOMAIN activeTxs \subseteq Txs
    /\ DOMAIN opinionHistory \subseteq Txs
    /\ \A r \in Rounds : pc[r] \in {"idle", "pop", "update", "finalize", "query", "wait", "send", "done"}
    /\ panicked \in BOOLEAN

(* ------------------------------- claims -------------------------------- *)

\* the txs of the batch of round r
BatchTxs(r) == {e.TxHash : e \in finalized[r]}

\* the txs in the waiting list
WaitingTxs == {waitingTxs[i].TxHash : i \in DOMAIN waitingTxs}

\* the positions of delivered whose batch contains tx
DeliveredWith(tx) == {i \in DOMAIN delivered : tx \in BatchTxs(delivered[i])}

\* C1: a tx submitted once that the consumer received in a finalized batch is in
\* neither activeTxs nor waitingTxs nor opinionHistory, GetInterimOpinion gives
\* the zero value for it, and it is in no second batch.
C1_FinalizationRetires ==
    \A tx \in Txs :
        (submitCount[tx] = 1 /\ DeliveredWith(tx) /= {}) =>
            /\ tx \notin DOMAIN activeTxs
            /\ tx \notin WaitingTxs
            /\ tx \notin DOMAIN opinionHistory
            /\ GetInterimOpinion(<<tx>>) = <<FALSE>>
            /\ Cardinality(DeliveredWith(tx)) = 1
            /\ \A r \in Rounds : tx \in BatchTxs(r) => r \in {delivered[i] : i \in DeliveredWith(tx)}

\* C2: every tx in activeTxs has a non-empty opinion history, in every state.
C2_ActiveHasHistory ==
    \A tx \in DOMAIN activeTxs : tx \in DOMAIN opinionHistory /\ Len(opinionHistory[tx]) > 0

\* no goroutine of a round and no receive of the consumer can take a step
Quiescent == ~ENABLED (\E r \in Rounds : RoundStep(r) \/ Receive(r))

\* C3: never more batches than ticks, and once every goroutine that can run has
\* run and the consumer has received what is offered, every tick has its batch.
C3_OneBatchPerTick ==
    /\ Len(delivered) <= nticks
    /\ \A i, j \in DOMAIN delivered : i /= j => delivered[i] /= delivered[j]
    /\ Quiescent => \A r \in 1..nticks : \E i \in DOMAIN delivered : delivered[i] = r

\* C4: the consumer receives the batches in the order of the Tick calls.
C4_DeliveredInTickOrder ==
    \A i, j \in DOMAIN delivered : i < j => delivered[i] < delivered[j]

\* C5: a round whose GetKnownPeers returns no peer does not fail, changes no
\* etaResult and goes on to hand over its batch.
C5_EmptyPeerSet ==
    [][\A r \in Rounds :
          (RoundQuerySample(r) /\ Len(knownPeers'[r]) = 0) =>
              /\ ~panicked'
              /\ activeTxs' = activeTxs
              /\ pc'[r] \in {"wait", "send"}]_vars

\* the length of the stored history of tx, 0 when none is stored
HLen(h, tx) == IF tx \in DOMAIN h THEN Len(h[tx]) ELSE 0

\* s is a prefix of t
IsPrefix(s, t) == Len(s) <= Len(t) /\ \A i \in DOMAIN s : s[i] = t[i]

\* C6: updateOpinion lengthens the history of every tx in activeTxs by exactly one
\* entry if its eta value is not -1 and leaves it alone if it is -1; no step
\* appends more than one entry, and none removes or rewrites an entry of a tx
\* that stays active.
C6_HistoryMonotonicity ==
    [][/\ \A r \in Rounds : RoundUpdateOpinion(r) =>
             \A tx \in DOMAIN activeTxs :
                 HLen(opinionHistory', tx) = HLen(opinionHistory, tx) +
                     (IF FracEQ(activeTxs[tx].value, MinusOne) THEN 0 ELSE 1)
       /\ \A tx \in DOMAIN opinionHistory :
             (tx \in DOMAIN activeTxs /\ tx \in DOMAIN activeTxs') =>
                 /\ tx \in DOMAIN opinionHistory'
                 /\ IsPrefix(opinionHistory[tx], opinionHistory'[tx])
                 /\ Len(opinionHistory'[tx]) <= Len(opinionHistory[tx]) + 1]_vars

\* the update steps run on tx after the one of the round that promoted it
RoundsSinceEntered(tx) == IF age[tx] = 0 THEN 0 ELSE age[tx] - 1

\* C7 as stated: the history of every active tx has 1 + (rounds since the tx
\* entered activeTxs) entries, the promoting round counting as zero.
C7_LengthIsRoundsPlusOne ==
    \A tx \in DOMAIN activeTxs :
        tx \in DOMAIN opinionHistory =>
            Len(opinionHistory[tx]) = 1 + RoundsSinceEntered(tx)

\* C7 amended: the history of every active tx that has one has 1 + (the
\* updateOpinion runs since its promotion that found an eta value other than -1)
\* entries; a run that finds -1 adds none.
C7_LengthIsVotedRoundsPlusOne ==
    \A tx \in DOMAIN activeTxs :
        tx \in DOMAIN opinionHistory =>
            /\ Len(opinionHistory[tx]) = 1 + age[tx] - skipped[tx]
            /\ (FracEQ(activeTxs[tx].value, MinusOne) => skipped[tx] = age[tx])

\* a tx was promoted, a round after the promoting one found no eta for it, a
\* later round appended
C7_Witness ==
    \E tx \in DOMAIN activeTxs :
        /\ tx \in DOMAIN opinionHistory
        /\ skipped[tx] >= 2
        /\ Len(opinionHistory[tx]) >= 2

\* C8 as stated: no tx is in waitingTxs and in activeTxs at once.
C8_WaitingActiveDisjoint == WaitingTxs \cap DOMAIN activeTxs = {}

\* C8 amended: a tx that was submitted once is never in waitingTxs and in
\* activeTxs at once.
C8_SubmittedOnceDisjoint ==
    \A tx \in WaitingTxs \cap DOMAIN activeTxs : submitCount[tx] >= 2

\* a tx submitted once has been promoted
C8_Witness ==
    \E tx \in DOMAIN activeTxs : submitCount[tx] = 1 /\ tx \notin WaitingTxs

\* the last ll entries of history are all v, and it has mm + ll + 1 entries or more
StableWith(history, mm, ll, v) ==
    /\ Len(history) >= mm + ll + 1
    /\ \A i \in (Len(history) - ll + 1)..Len(history) : history[i] = v

\* C9: once the history of an active tx has parameters.l identical last entries
\* and m+l+1 entries or more, it keeps that tail until a round finalizes the tx
\* with the tail value.
C9_StabilityImpliesFinalization ==
    [][\A tx \in DOMAIN activeTxs : \A v \in BOOLEAN :
          (tx \in DOMAIN opinionHistory
              /\ StableWith(opinionHistory[tx], parameters.m, parameters.l, v)) =>
              \/ /\ tx \in DOMAIN activeTxs'
                 /\ tx \in DOMAIN opinionHistory'
                 /\ StableWith(opinionHistory'[tx], parameters.m, parameters.l, v)
              \/ \E r \in Rounds :
                    /\ RoundGetFinalizedTxs(r)
                    /\ TxOpinion(tx, v) \in finalized'[r]
                    /\ tx \notin DOMAIN activeTxs']_vars

\* C10: the entries of every history are written in round order, one per round,
\* after the entry popTxs wrote.
C10_SingleWriterHistory ==
    \A tx \in DOMAIN opinionHistory :
        /\ Len(writers[tx]) = Len(opinionHistory[tx])
        /\ writers[tx][1] = 0
        /\ \A i, j \in DOMAIN writers[tx] : i < j => writers[tx][i] < writers[tx][j]

(* ------------------- the update step on any parameters ------------------ *)

\* the floats of [0, 1] in the binades the inputs are drawn from
Floats01 ==
    {Frac(0, 1), Frac(1, 1)} \cup
        {Lowest(mant, Precision + j) : mant \in 2^(Precision - 1)..(2^Precision - 1),
                                       j \in 0..MaxBinades}

\* randoms outside [0, 1] a host can pass to Tick
RandomsOutside == {Frac(-1, 1), Frac(2, 1)}

\* the randoms Tick is called with
RandomsAny == Floats01 \cup RandomsOutside

\* the etaResults calculateEtas can return for one tx from kk responses
Etas(kk) ==
    UNION {{etaResult(Fl(Frac(likes, count)), count) : likes \in 0..count} : count \in 1..kk}

\* configurations for the first threshold: every a <= b
ParametersFirst ==
    {[k |-> 2, a |-> a, b |-> b, beta |-> Frac(1, 4), m |-> 3, l |-> 1] :
        <<a, b>> \in {ab \in Floats01 \X Floats01 : FracLE(ab[1], ab[2])}}

\* configurations for the later thresholds: every beta < 1/2
ParametersLater ==
    {[k |-> 2, a |-> Frac(1, 2), b |-> Frac(1, 2), beta |-> beta, m |-> 3, l |-> 1] :
        beta \in {f \in Floats01 : FracGT(Frac(1, 2), f)}}

\* the engine after done rounds in which tx 1 was promoted, sampled with result
\* eta and updated done - 1 times
AfterRounds(done, params, eta) ==
    /\ parameters = params
    /\ waitingTxs = << >>
    /\ activeTxs = (1 :> eta)
    /\ opinionHistory = (1 :> [i \in 1..done |-> Like])
    /\ tick = newTick(done, Frac(0, 1))
    /\ pc = [r \in Rounds |-> IF r <= done THEN "done" ELSE "idle"]
    /\ finalized = [r \in Rounds |-> {}]
    /\ txs = [r \in Rounds |-> << >>]
    /\ knownPeers = [r \in Rounds |-> << >>]
    /\ selectedNodes = [r \in Rounds |-> << >>]
    /\ queries = [r \in Rounds |-> << >>]
    /\ c = [r \in Rounds |-> << >>]
    /\ taken = [r \in Rounds |-> << >>]
    /\ delivered = [i \in 1..done |-> i]
    /\ panicked = FALSE
    /\ nticks = done
    /\ submitCount = [tx \in Txs |-> IF tx = 1 THEN 1 ELSE 0]
    /\ writers = (1 :> [i \in 1..done |-> IF i = 1 THEN 0 ELSE i])
    /\ age = (1 :> done)
    /\ skipped = (1 :> 1)

UpdateInit ==
    \/ \E params \in ParametersFirst, eta \in Etas(2) : AfterRounds(1, params, eta)
    \/ \E params \in ParametersLater, eta \in Etas(2) : AfterRounds(2, params, eta)

\* one more tick, with any random, and its round up to the update step
UpdateNext ==
    \/ \E random \in RandomsAny : SerialTick(random)
    \/ \E r \in Rounds : RoundPopTxs(r)
    \/ \E r \in Rounds : RoundUpdateOpinion(r)

UpdateSpec == UpdateInit /\ [][UpdateNext]_vars

\* a, b in [0, 1], a <= b, beta in [0, 1/2)
ValidParameters ==
    /\ FracLE(Frac(0, 1), parameters.a) /\ FracLE(parameters.a, parameters.b)
    /\ FracLE(parameters.b, Frac(1, 1))
    /\ FracLE(Frac(0, 1), parameters.beta) /\ FracGT(Frac(1, 2), parameters.beta)

\* x in [0, 1]
InUnit(x) == FracLE(Frac(0, 1), x) /\ FracLE(x, Frac(1, 1))

\* a round is about to run updateOpinion
AtUpdate == \E r \in Rounds : pc[r] = "update"

Clamp(x) ==
    IF FracGT(Frac(0, 1), x) THEN Frac(0, 1)
    ELSE IF FracGT(x, Frac(1, 1)) THEN Frac(1, 1)
    ELSE x

\* C13: after Tick was called with a random outside [0,1] the engine has not
\* failed, and the threshold of the update step is the one of the random
\* clamped into [0,1], within [0,1].
C13_OutOfRangeClamped ==
    /\ ~panicked
    /\ (AtUpdate /\ ValidParameters /\ ~InUnit(tick.x)) =>
           \A tx \in Updated :
               /\ FracEQ(Threshold(opinionHistory[tx], tick.x),
                         Threshold(opinionHistory[tx], Clamp(tick.x)))
               /\ InUnit(Threshold(opinionHistory[tx], tick.x))

\* a + x*(b-a) for a history of length 1, beta + x*(1-2*beta) for a longer one,
\* in exact arithmetic
ExactThreshold(history, x) ==
    IF Len(history) = 1
    THEN FracAdd(parameters.a, FracMul(x, FracSub(parameters.b, parameters.a)))
    ELSE FracAdd(parameters.beta,
                 FracMul(x, FracSub(Frac(1, 1), FracMul(Frac(2, 1), parameters.beta))))

\* a + x*(b-a) for a history of length 1, beta + x*((1-beta)-beta) for a longer
\* one, every operation rounded to a float
RoundedThreshold(history, x) ==
    IF Len(history) = 1
    THEN Fl(FracAdd(parameters.a, Fl(FracMul(x, Fl(FracSub(parameters.b, parameters.a))))))
    ELSE Fl(FracAdd(parameters.beta,
                    Fl(FracMul(x, Fl(FracSub(Fl(FracSub(Frac(1, 1), parameters.beta)),
                                             parameters.beta))))))

\* the last entry of the history
Last(history) == history[Len(history)]

\* C15 as stated: the update step appends, for every active tx whose eta value
\* is not -1, Like if and only if eta.value > a + x*(b-a) for a history of
\* length 1 and eta.value > beta + x*(1-2*beta) for a longer one.
C15_UpdateRule ==
    [][\A r \in Rounds : RoundUpdateOpinion(r) =>
          \A tx \in DOMAIN activeTxs :
              (tx \in DOMAIN opinionHistory /\ ~FracEQ(activeTxs[tx].value, MinusOne)) =>
                  /\ Len(opinionHistory'[tx]) = Len(opinionHistory[tx]) + 1
                  /\ Last(opinionHistory'[tx]) = Like <=>
                         FracGT(activeTxs[tx].value, ExactThreshold(opinionHistory[tx], tick.x))]_vars

\* C15 amended: the appended opinion is Like if and only if eta.value is
\* strictly greater than the float64 value of a + x*(b-a), for a history of
\* length 1, or of beta + x*((1-beta)-beta), for a longer one, each operation
\* rounded; eta.value equal to that value yields Dislike.
C15_UpdateRuleRounded ==
    [][\A r \in Rounds : RoundUpdateOpinion(r) =>
          \A tx \in DOMAIN activeTxs :
              (tx \in DOMAIN opinionHistory /\ ~FracEQ(activeTxs[tx].value, MinusOne)) =>
                  LET t == RoundedThreshold(opinionHistory[tx], tick.x)
                  IN  /\ Len(opinionHistory'[tx]) = Len(opinionHistory[tx]) + 1
                      /\ Last(opinionHistory'[tx]) = Like <=> FracGT(activeTxs[tx].value, t)
                      /\ FracEQ(activeTxs[tx].value, t) => Last(opinionHistory'[tx]) = Dislike]_vars

\* an update step has appended Dislike for an eta value equal to the threshold
C15_Witness ==
    /\ \E r \in Rounds : pc[r] = "finalize"
    /\ \E tx \in DOMAIN activeTxs :
          /\ tx \in DOMAIN opinionHistory
          /\ Len(opinionHistory[tx]) = 2
          /\ FracEQ(activeTxs[tx].value, runif(tick.x, parameters.a, parameters.b))
          /\ Last(opinionHistory[tx]) = Dislike

(* --------------------- unanimous answers (scenario S1) ------------------ *)

\* k=3, a=b=0.5, beta=0.3 as in scenario S1 (m=2, l=3), with every cooling-off
\* m and window l up to those of S1
ScenarioParameters ==
    {[k |-> 3, a |-> Frac(1, 2), b |-> Frac(1, 2), beta |-> Fl(Frac(3, 10)), m |-> mm, l |-> ll] :
        mm \in 0..2, ll \in 1..3}

\* the parameters of scenario S1
S1Parameters ==
    [k |-> 3, a |-> Frac(1, 2), b |-> Frac(1, 2), beta |-> Fl(Frac(3, 10)), m |-> 2, l |-> 3]

ScenarioInit ==
    /\ parameters \in ScenarioParameters
    /\ waitingTxs = << >>
    /\ activeTxs = << >>
    /\ opinionHistory = << >>
    /\ tick = newTick(0, Frac(0, 1))
    /\ pc = [r \in Rounds |-> "idle"]
    /\ finalized = [r \in Rounds |-> {}]
    /\ txs = [r \in Rounds |-> << >>]
    /\ knownPeers = [r \in Rounds |-> << >>]
    /\ selectedNodes = [r \in Rounds |-> << >>]
    /\ queries = [r \in Rounds |-> << >>]
    /\ c = [r \in Rounds |-> << >>]
    /\ taken = [r \in Rounds |-> << >>]
    /\ delivered = << >>
    /\ panicked = FALSE
    /\ nticks = 0
    /\ submitCount = [tx \in Txs |-> 0]
    /\ writers = << >>
    /\ age = << >>
    /\ skipped = << >>

\* every one of the k queries answers v for every tx of the list
Unanimous(txlist, v) == [i \in 1..parameters.k |-> [j \in 1..Len(txlist) |-> v]]

\* v is the answer the earlier rounds gave for the txs still active
SameAnswerAsBefore(v) ==
    \A tx \in DOMAIN activeTxs :
        ~FracEQ(activeTxs[tx].value, MinusOne) => (FracEQ(activeTxs[tx].value, Frac(1, 1)) <=> v)

\* round: the write-back when every query answers the same in every round
ScenarioWriteBack(r) ==
    \E v \in BOOLEAN : SameAnswerAsBefore(v) /\ RoundWriteBackOf(r, Unanimous(txs[r], v))

\* Tick called after the batch of the tick before was received
ScenarioTick(random) == InFlight = {} /\ Tick(random)

ScenarioNext ==
    \/ \E list \in SubmitLists : SubmitTxsForVoting(list)
    \/ \E random \in Randoms : ScenarioTick(random)
    \/ \E r \in Rounds : RoundPopTxs(r)
    \/ \E r \in Rounds : RoundUpdateOpinion(r)
    \/ \E r \in Rounds : RoundGetFinalizedTxs(r)
    \/ \E r \in Rounds : RoundQuerySample(r)
    \/ \E r \in Rounds : ScenarioWriteBack(r)
    \/ \E r \in Rounds : Receive(r)

ScenarioSpec == ScenarioInit /\ [][ScenarioNext]_vars

\* C12: when every round yields the same unanimous answer v, getFinalizedTxs
\* finalizes a tx in exactly the round in which its history has m+l+1 entries,
\* the round m+l after the promoting one (round 5 in scenario S1, where the
\* history is six times Like), not earlier and not later, and emits v.
C12_UnanimousFinalization ==
    [][\A r \in Rounds : RoundGetFinalizedTxs(r) =>
          \A tx \in DOMAIN activeTxs :
              LET v == FracEQ(activeTxs[tx].value, Frac(1, 1))
                  history == opinionHistory[tx]
                  due == parameters.m + parameters.l
              IN  /\ RoundsSinceEntered(tx) <= due
                  /\ Len(history) = 1 + RoundsSinceEntered(tx)
                  /\ \A i \in 2..Len(history) : history[i] = v
                  /\ tx \in Final <=> RoundsSinceEntered(tx) = due
                  /\ tx \in Final => TxOpinion(tx, v) \in finalized'[r]
                  /\ tx \notin Final => tx \in DOMAIN activeTxs'
                  /\ (parameters = S1Parameters /\ tx \in Final /\ history[1] = Like /\ v = Like) =>
                         /\ history = <<Like, Like, Like, Like, Like, Like>>
                         /\ RoundsSinceEntered(tx) = 5]_vars

\* scenario S1 has run: the tx submitted with Like before the first tick is in
\* the batch of the sixth round, the fifth after the promoting one, with Like
C12_Witness ==
    /\ parameters = S1Parameters
    /\ TxOpinion(1, Like) \in finalized[6]
    /\ \A r \in 1..5 : finalized[r] = {}
    /\ delivered = <<1, 2, 3, 4, 5, 6>>

(* ------------------ the finalization step on any history ---------------- *)

\* every cooling-off m >= 0 and window l >= 1 up to MaxWindow
ParametersFinal ==
    {[k |-> 2, a |-> Frac(1, 4), b |-> Frac(1, 2), beta |-> Frac(1, 4), m |-> mm, l |-> ll] :
        mm \in 0..MaxWindow, ll \in 1..MaxWindow}

\* a round is about to run getFinalizedTxs on tx 1 with history o
FinalizeInit ==
    \E o \in SeqsOf(BOOLEAN, 1, MaxLen), eta \in Etas(2) :
        /\ parameters \in ParametersFinal
        /\ waitingTxs = << >>
        /\ activeTxs = (1 :> eta)
        /\ opinionHistory = (1 :> o)
        /\ tick = newTick(1, Frac(0, 1))
        /\ pc = [r \in Rounds |-> IF r = 1 THEN "finalize" ELSE "idle"]
        /\ finalized = [r \in Rounds |-> {}]
        /\ txs = [r \in Rounds |-> << >>]
        /\ knownPeers = [r \in Rounds |-> << >>]
        /\ selectedNodes = [r \in Rounds |-> << >>]
        /\ queries = [r \in Rounds |-> << >>]
        /\ c = [r \in Rounds |-> << >>]
        /\ taken = [r \in Rounds |-> << >>]
        /\ delivered = << >>
        /\ panicked = FALSE
        /\ nticks = 1
        /\ submitCount = [tx \in Txs |-> IF tx = 1 THEN 1 ELSE 0]
        /\ writers = (1 :> [i \in 1..Len(o) |-> i - 1])
        /\ age = (1 :> Len(o))
        /\ skipped = (1 :> 1)

FinalizeNext == \E r \in Rounds : RoundGetFinalizedTxs(r)

FinalizeSpec == FinalizeInit /\ [][FinalizeNext]_vars

\* C14: getFinalizedTxs finalizes a tx with history o exactly when o has m+l+1
\* entries or more and its last l entries are identical, never a shorter one,
\* and emits that tail value.
C14_FinalizationRule ==
    [][\A r \in Rounds : RoundGetFinalizedTxs(r) =>
          \A tx \in DOMAIN activeTxs :
              LET o == opinionHistory[tx]
                  stable == \E v \in BOOLEAN : StableWith(o, parameters.m, parameters.l, v)
              IN  /\ isFinal(Tail1(o), parameters.m, parameters.l) <=> stable
                  /\ stable <=> \E v \in BOOLEAN : TxOpinion(tx, v) \in finalized'[r]
                  /\ stable <=> tx \notin DOMAIN activeTxs'
                  /\ Len(o) < parameters.m + parameters.l + 1 => tx \in DOMAIN activeTxs'
                  /\ \A v \in BOOLEAN :
                        TxOpinion(tx, v) \in finalized'[r] =>
                            StableWith(o, parameters.m, parameters.l, v)]_vars

\* with m = 1 and l = 2 the tx has been finalized with Dislike
C14_Witness ==
    /\ parameters.m = 1 /\ parameters.l = 2
    /\ finalized[1] = {TxOpinion(1, Dislike)}
    /\ 1 \notin DOMAIN activeTxs

(* ------------------- ticks that overtake their rounds ------------------- *)

\* the random the host draws for the tick with this index
RandomOf(index) == Frac(index % 2, 2)

\* Tick(index, RandomOf(index)), called while earlier rounds are still running
OverlapTick ==
    /\ nticks < MaxTicks
    /\ Cardinality(InFlight) < MaxInFlight
    /\ Tick(RandomOf(nticks + 1))

OverlapNext ==
    \/ \E list \in SubmitLists : SubmitTxsForVoting(list)
    \/ OverlapTick
    \/ \E r \in Rounds : RoundStep(r)
    \/ \E r \in Rounds : Receive(r)
    \/ ConcurrentMapAccess

OverlapSpec == Init /\ [][OverlapNext]_vars

\* C16: common random per round.  The update step of the round started by the
\* r-th Tick appends, for every tx it updates, the comparison of the tx's eta with
\* the threshold computed from the random of the r-th tick, also when a later
\* Tick was called before that update step
C16_CommonRandomPerRound ==
    [][\A r \in Rounds :
          RoundUpdateOpinion(r) =>
              \A tx \in Updated :
                  opinionHistory'[tx] =
                      Append(opinionHistory[tx],
                             FracGT(activeTxs[tx].value,
                                    Threshold(opinionHistory[tx], RandomOf(r))))]_vars

(* ------------------------ the sampler on its own ------------------------ *)

\* configurations that differ in the number of nodes a round queries
SamplerParameters ==
    {[k |-> kk, a |-> Frac(1, 4), b |-> Frac(1, 2), beta |-> Frac(1, 4), m |-> 3, l |-> 1] :
        kk \in 1..MaxK}

\* the etaResults the txs can have when the round reaches querySample: that of a
\* fresh promotion, or one an earlier round of one answer wrote
OldEtas == {NoEta} \cup Etas(1)

\* the engine when its second round is about to call querySample, with these
\* etaResults in activeTxs
BeforeQuery(params, etas) ==
    /\ parameters = params
    /\ waitingTxs = << >>
    /\ activeTxs = etas
    /\ opinionHistory = [tx \in DOMAIN etas |->
           IF etas[tx] = NoEta THEN <<Like>> ELSE <<Like, Dislike>>]
    /\ tick = newTick(2, Frac(1, 2))
    /\ pc = [r \in Rounds |-> IF r = 1 THEN "done" ELSE IF r = 2 THEN "query" ELSE "idle"]
    /\ finalized = [r \in Rounds |-> {}]
    /\ txs = [r \in Rounds |-> << >>]
    /\ knownPeers = [r \in Rounds |-> << >>]
    /\ selectedNodes = [r \in Rounds |-> << >>]
    /\ queries = [r \in Rounds |-> << >>]
    /\ c = [r \in Rounds |-> << >>]
    /\ taken = [r \in Rounds |-> << >>]
    /\ delivered = <<1>>
    /\ panicked = FALSE
    /\ nticks = 2
    /\ submitCount = [tx \in Txs |-> 1]
    /\ writers = [tx \in DOMAIN etas |-> IF etas[tx] = NoEta THEN <<0>> ELSE <<0, 2>>]
    /\ age = [tx \in DOMAIN etas |-> 2]
    /\ skipped = [tx \in DOMAIN etas |-> IF etas[tx] = NoEta THEN 2 ELSE 1]

SamplerInit ==
    \E params \in SamplerParameters, S \in SUBSET (1..MaxSampled) :
        \E etas \in [S -> OldEtas] : BeforeQuery(params, etas)

\* the rest of the round: querySample, the write-back, the hand-over of the batch
SamplerNext ==
    \/ \E r \in Rounds : RoundQuerySample(r)
    \/ \E r \in Rounds : RoundWriteBack(r)
    \/ \E r \in Rounds : Receive(r)

SamplerSpec == SamplerInit /\ [][SamplerNext]_vars

\* the responses that carry an opinion at position i
Carrying(responses, i) == {j \in DOMAIN responses : i <= Len(responses[j])}

\* the responses that carry Like at position i
Liking(responses, i) == {j \in Carrying(responses, i) : responses[j][i] = Like}

\* the same responses, arriving in the order p
Arriving(responses, p) == [j \in DOMAIN responses |-> responses[p[j]]]

\* C17: sampler aggregation.  For the k responses a round's queries return, the
\* map querySample returns holds exactly the txs at whose position of the queried
\* list some response carries an opinion; the count of such a tx is the number of
\* responses that carry an opinion there and its value the number of Likes among
\* them divided by the count (the float64 quotient); an empty response adds to no
\* tx; and every arrival order of the k responses gives the same map
C17_SamplerAggregation ==
    [][\A r \in Rounds : \A responses \in [1..parameters.k -> Responses(txs[r])] :
          RoundWriteBackOf(r, responses) =>
              LET etas == querySample(txs[r], responses)
                  voted == {i \in DOMAIN txs[r] : Carrying(responses, i) /= {}}
              IN  /\ DOMAIN etas = {txs[r][i] : i \in voted}
                  /\ \A i \in voted :
                        LET count == Cardinality(Carrying(responses, i))
                            likes == Cardinality(Liking(responses, i))
                        IN  etas[txs[r][i]] = etaResult(Fl(Frac(likes, count)), count)
                  /\ \A p \in Orders(1..parameters.k) :
                        querySample(txs[r], Arriving(responses, p)) = etas]_vars

\* three queries: one returned nothing, two returned opinions on two txs, Like
\* and Dislike on tx 1, Like twice on tx 2
C17_Witness ==
    /\ parameters.k = 3
    /\ pc[2] = "send"
    /\ DOMAIN activeTxs = {1, 2}
    /\ activeTxs[1] = etaResult(Frac(1, 2), 2)
    /\ activeTxs[2] = etaResult(Frac(1, 1), 2)

(* --------------------------- the write-back ---------------------------- *)

\* C18: write-back frame.  The write-back of a round assigns the etaResult of
\* every tx of the map querySample returned and of no other; every tx of
\* activeTxs that the map does not hold keeps its etaResult; the step changes
\* neither the histories nor the waiting list; and no step sets the etaResult of
\* a tx that stays in activeTxs back to {-1, 0}
C18_WriteBackFrame ==
    [][/\ \A r \in {w \in Rounds : pc[w] = "wait"} :
             \A responses \in [1..parameters.k -> Responses(txs[r])] :
                 RoundWriteBackOf(r, responses) =>
                 LET etas == querySample(txs[r], responses)
                 IN  /\ DOMAIN activeTxs' = DOMAIN activeTxs \cup DOMAIN etas
                     /\ \A tx \in DOMAIN etas : activeTxs'[tx] = etas[tx]
                     /\ \A tx \in DOMAIN activeTxs \ DOMAIN etas : activeTxs'[tx] = activeTxs[tx]
                     /\ opinionHistory' = opinionHistory
                     /\ waitingTxs' = waitingTxs
       /\ \A tx \in DOMAIN activeTxs \cap DOMAIN activeTxs' :
             activeTxs[tx] /= NoEta => activeTxs'[tx] /= NoEta]_vars

\* the only round so far promoted tx 1, none of its queries returned an opinion,
\* and after its write-back tx 1 still has the etaResult of its promotion
C18_Witness ==
    /\ nticks = 1
    /\ pc[1] = "send"
    /\ DOMAIN activeTxs = {1}
    /\ activeTxs[1] = NoEta

(* ------------------------- stored etaResults --------------------------- *)

\* C20: etaResult well-formedness.  Every etaResult in activeTxs is {-1, 0}, or
\* has a count in 1..k and as value the quotient of a number of Likes in
\* 0..count by the count, which lies in [0, 1]
C20_EtaWellFormed ==
    \A tx \in DOMAIN activeTxs :
        LET eta == activeTxs[tx]
        IN  \/ eta = NoEta
            \/ /\ eta.count \in 1..parameters.k
               /\ \E likes \in 0..eta.count : eta.value = Fl(Frac(likes, eta.count))
               /\ InUnit(eta.value)

\* a round has written the etaResult of one Like among two answers, and two
\* rounds are running
C20_Witness ==
    /\ Cardinality(InFlight) = 2
    /\ \E tx \in DOMAIN activeTxs : activeTxs[tx] = etaResult(Frac(1, 2), 2)

(* ---------------------- the join of the k queries ----------------------- *)

\* make(chan Opinions, k): the responses c holds without a receiver
ChannelCapacity == parameters.k

\* a merge loop that takes one response fewer than there are queries
JoinCount_OneLess == parameters.k - 1

\* for i := 0; i < k; i++: the responses the merge loop takes from c
JoinCount == parameters.k

\* the engine when its second round is about to call querySample for the txs of
\* S, all freshly promoted
JoinInit ==
    \E params \in SamplerParameters, S \in SUBSET (1..MaxSampled) :
        BeforeQuery(params, [tx \in S |-> NoEta])

\* query goroutine q of round r: received := qn(txs, nodeID) returns
QueryReturns(r, q, received) ==
    /\ ~panicked
    /\ pc[r] = "wait"
    /\ q \in DOMAIN selectedNodes[r]
    /\ q \notin DOMAIN queries[r]
    /\ queries' = [queries EXCEPT ![r] = (q :> [received |-> received, sent |-> FALSE]) @@ @]
    /\ UNCHANGED sharedVars
    /\ UNCHANGED hostVars
    /\ UNCHANGED localVars
    /\ UNCHANGED <<c, taken, pc, delivered, panicked>>

\* query goroutine q of round r: c <- received, possible while c has room
QuerySends(r, q) ==
    /\ ~panicked
    /\ q \in DOMAIN queries[r]
    /\ ~queries[r][q].sent
    /\ Len(c[r]) < ChannelCapacity
    /\ c' = [c EXCEPT ![r] = Append(@, queries[r][q].received)]
    /\ queries' = [queries EXCEPT ![r][q].sent = TRUE]
    /\ UNCHANGED sharedVars
    /\ UNCHANGED hostVars
    /\ UNCHANGED localVars
    /\ UNCHANGED <<taken, pc, delivered, panicked>>

\* querySample: votes := <-c in the merge loop
JoinReceive(r) ==
    /\ ~panicked
    /\ pc[r] = "wait"
    /\ Len(taken[r]) < JoinCount
    /\ c[r] /= << >>
    /\ taken' = [taken EXCEPT ![r] = Append(@, Head(c[r]))]
    /\ c' = [c EXCEPT ![r] = Tail(@)]
    /\ UNCHANGED sharedVars
    /\ UNCHANGED hostVars
    /\ UNCHANGED localVars
    /\ UNCHANGED <<queries, pc, delivered, panicked>>

\* querySample: the merge loop is over, calculateEtas, return; the loop of round
\* writes the etas to activeTxs
JoinReturn(r) ==
    /\ Len(taken[r]) = JoinCount
    /\ RoundWriteBackOf(r, taken[r])

\* the second round from querySample on, every query goroutine a process of its own
JoinNext ==
    \/ \E r \in Rounds : RoundQuerySample(r)
    \/ \E r \in Rounds : \E q \in 1..MaxK : \E received \in Responses(txs[r]) :
          QueryReturns(r, q, received)
    \/ \E r \in Rounds : \E q \in 1..MaxK : QuerySends(r, q)
    \/ \E r \in Rounds : JoinReceive(r)
    \/ \E r \in Rounds : JoinReturn(r)
    \/ \E r \in Rounds : Receive(r)

JoinSpec == JoinInit /\ [][JoinNext]_vars

\* a step of a query goroutine, or of the merge loop taking a response
JoinStep ==
    \/ \E r \in Rounds : \E q \in 1..MaxK : \E received \in Responses(txs[r]) :
          QueryReturns(r, q, received)
    \/ \E r \in Rounds : \E q \in 1..MaxK : QuerySends(r, q)
    \/ \E r \in Rounds : JoinReceive(r)

\* the merge loop of round r is over and querySample is about to return:
\* JoinReturn(r) is enabled
ReadyToReturn(r) == ~panicked /\ pc[r] = "wait" /\ Len(taken[r]) = JoinCount

\* every QueryNode call returns and the scheduler runs the goroutines: while a
\* query goroutine or the merge loop can take a step, one of them does, and a
\* round whose merge loop is over does not stay before its return for ever
\* (weak fairness of JoinReturn(r), which is enabled exactly when
\* ReadyToReturn(r) holds and ends it)
JoinFairSpec ==
    /\ JoinSpec
    /\ WF_vars(JoinStep)
    /\ \A r \in Rounds : []<>~ReadyToReturn(r)

\* querySample of round r has returned
Returned(r) == pc[r] \in {"send", "done"} /\ knownPeers[r] /= << >>

\* the k queries of a round whose querySample has returned have all completed and
\* handed over their response, the loop took k responses and c is empty; a query
\* goroutine that has a response to hand over finds room in c; and there are
\* never more than k of them
JoinComplete ==
    \A r \in Rounds :
        /\ Returned(r) =>
              /\ DOMAIN queries[r] = 1..parameters.k
              /\ \A q \in DOMAIN queries[r] : queries[r][q].sent
              /\ Len(taken[r]) = parameters.k
              /\ c[r] = << >>
        /\ \A q \in DOMAIN queries[r] : ~queries[r][q].sent => Len(c[r]) < ChannelCapacity
        /\ Cardinality(DOMAIN queries[r]) <= parameters.k

\* querySample with a non-empty list of peers starts k queries, each to one of
\* the peers
DispatchesK(r) ==
    (RoundQuerySample(r) /\ Len(knownPeers'[r]) > 0) =>
        /\ pc'[r] = "wait"
        /\ Len(selectedNodes'[r]) = parameters.k
        /\ \A q \in DOMAIN selectedNodes'[r] :
              \E n \in DOMAIN knownPeers'[r] : selectedNodes'[r][q] = knownPeers'[r][n]

\* C19: sampler join.  With a non-empty peer list querySample starts exactly k
\* queries, to peers picked with replacement; it does not return before all k
\* have completed and their k responses were taken; no query goroutine is ever
\* unable to hand over its response; and if every QueryNode call returns,
\* querySample returns
C19_SamplerJoin ==
    /\ []JoinComplete
    /\ [][\A r \in Rounds : DispatchesK(r)]_vars
    /\ \A r \in Rounds : (pc[r] = "wait") ~> (pc[r] = "send")

\* three queries to the only peer: the first response taken was empty, the other
\* two carried opinions, and querySample has returned
C19_Witness ==
    /\ parameters.k = 3
    /\ Returned(2)
    /\ knownPeers[2] = <<1>>
    /\ Len(taken[2]) = 3
    /\ taken[2][1] = << >>
    /\ taken[2][2] /= << >>
    /\ \A q \in 1..3 : q \in DOMAIN queries[2] /\ queries[2][q].sent

====
